---------------------------- MODULE Spec2Model ----------------------------
(***************************************************************************)
(* A model of the plant genetics module (src/plant-genetics.js): the trait *)
(* registry GENE_TRAITS, the gene sequence codec of class Plant            *)
(* (parseGeneSequence, toGeneSequence, generateDefaultGeneSequence), the   *)
(* phenotype resolver (calculatePhenotype, calculateTraitInteractions),    *)
(* the plant's update/harvest life cycle and PlantBreeder.crossPlants.     *)
(* The garden page (src/unnamed/part_000) is modelled with its game        *)
(* object, its handlers and gameLoop.                                      *)
(*                                                                         *)
(* Representation.                                                         *)
(*  - A JavaScript string is a sequence of one-character strings, so that  *)
(*    split, indexing, sort and parseInt are computed on the characters.   *)
(*  - A JavaScript number is an exact rational <<n, d>> in lowest terms    *)
(*    with d > 0; NaN is <<0, 0>>.  Arithmetic is that of the reals:       *)
(*    IEEE-754 rounding error is not modelled.                             *)
(*  - A JavaScript value held in a genes object is [str |-> s] for a       *)
(*    string, [num |-> q] for a number, [undef |-> TRUE] for undefined.    *)
(*  - A JavaScript object whose key order is observable (genes) is a       *)
(*    sequence of [k, v] entries in insertion order.                       *)
(*  - Math.random() is a nondeterministic choice over the outcomes of the  *)
(*    comparison or index computation it feeds.                            *)
(***************************************************************************)
EXTENDS Integers, Sequences, FiniteSets, TLC

VARIABLES
    input,      \* the geneSequence argument the Plant constructor is given
    pc,         \* "new" before the constructor has run, "plant" after
    genes,      \* Plant.genes
    phenotype,  \* Plant.phenotype
    progress,   \* Plant.progress
    health,     \* Plant.health
    ready,      \* Plant.ready
    watered,    \* Plant.watered
    ret,        \* what the last call on the plant returned
    reparsed,   \* parseGeneSequence(this.toGeneSequence()), once it is taken
    permuted,   \* parseGeneSequence of the input's segments in another order
    parents,    \* the gene sequences of the two plants the breeder's caller holds
    crossingHistory, \* PlantBreeder.crossingHistory
    offspring,  \* what the last crossPlants call returned
    mutations,  \* the number of genes mutated so far
    returned,   \* the number of crossPlants calls that returned an offspring
    game,       \* the game object of the garden page
    runs,       \* the number of runs of gameLoop so far
    timers      \* the plots with a pending setTimeout(() => harvestPlot(i), 500)

vars == <<input, pc, genes, phenotype, progress, health, ready, watered, ret,
          reparsed, permuted, parents, crossingHistory, offspring, mutations,
          returned, game, runs, timers>>

plantVars == <<input, pc, genes, phenotype, progress, health, ready, watered,
               ret, reparsed, permuted>>

breederVars == <<parents, crossingHistory, offspring, mutations, returned>>

gardenVars == <<game, runs, timers>>

-----------------------------------------------------------------------------
(* Numbers *)

Abs(i) == IF i < 0 THEN -i ELSE i

RECURSIVE GCD(_, _)
GCD(a, b) == IF b = 0 THEN a ELSE GCD(b, a % b)

NaN == <<0, 0>>

isNaN(q) == q[2] = 0

\* n/d in lowest terms, d > 0
Q(n, d) ==
    LET g == GCD(Abs(n), Abs(d))
        s == IF d < 0 THEN -1 ELSE 1
    IN  IF d = 0 THEN NaN ELSE <<s * (n \div g), s * (d \div g)>>

N(i) == <<i, 1>>

Add(p, q) == IF isNaN(p) \/ isNaN(q) THEN NaN
             ELSE Q(p[1] * q[2] + q[1] * p[2], p[2] * q[2])

Neg(p) == IF isNaN(p) THEN NaN ELSE <<-p[1], p[2]>>

Sub(p, q) == Add(p, Neg(q))

Mul(p, q) == IF isNaN(p) \/ isNaN(q) THEN NaN
             ELSE Q(p[1] * q[1], p[2] * q[2])

\* division by zero yields Infinity in JavaScript; no divisor of the module is 0
Div(p, q) == IF isNaN(p) \/ isNaN(q) THEN NaN
             ELSE Q(p[1] * q[2], p[2] * q[1])

\* comparisons with NaN are false
Lt(p, q) == ~isNaN(p) /\ ~isNaN(q) /\ p[1] * q[2] < q[1] * p[2]

Gt(p, q) == Lt(q, p)

Le(p, q) == ~isNaN(p) /\ ~isNaN(q) /\ p[1] * q[2] <= q[1] * p[2]

Ge(p, q) == Le(q, p)

\* Math.max, Math.min
MathMax(p, q) == IF isNaN(p) \/ isNaN(q) THEN NaN ELSE IF Lt(p, q) THEN q ELSE p

MathMin(p, q) == IF isNaN(p) \/ isNaN(q) THEN NaN ELSE IF Lt(q, p) THEN q ELSE p

\* Math.round: the nearest integer, halves towards +Infinity: floor(x + 1/2)
MathRound(p) ==
    IF isNaN(p) THEN NaN ELSE N((2 * p[1] + p[2]) \div (2 * p[2]))

\* a number used as a condition: 0 and NaN are falsy
Truthy(q) == ~isNaN(q) /\ q[1] # 0

\* a || b on numbers
OrElse(a, b) == IF Truthy(a) THEN a ELSE b

-----------------------------------------------------------------------------
(* Characters and strings *)

Digits == <<"0", "1", "2", "3", "4", "5", "6", "7", "8", "9">>

DigitChars == {Digits[i] : i \in 1..10}

\* the UTF-16 code unit of a character, which Array.prototype.sort compares
CharCode(c) ==
    CASE c = "-" -> 45 [] c = "." -> 46 [] c = ":" -> 58
      [] c = "0" -> 48 [] c = "1" -> 49 [] c = "2" -> 50 [] c = "3" -> 51
      [] c = "4" -> 52 [] c = "5" -> 53 [] c = "6" -> 54 [] c = "7" -> 55
      [] c = "8" -> 56 [] c = "9" -> 57
      [] c = "A" -> 65 [] c = "B" -> 66 [] c = "C" -> 67 [] c = "D" -> 68
      [] c = "F" -> 70 [] c = "G" -> 71 [] c = "L" -> 76 [] c = "N" -> 78
      [] c = "P" -> 80 [] c = "Q" -> 81 [] c = "R" -> 82 [] c = "S" -> 83
      [] c = "W" -> 87 [] c = "X" -> 88 [] c = "Y" -> 89 [] c = "Z" -> 90
      [] c = "x" -> 120

DigitValue(c) == CharCode(c) - 48

Str(s) == [str |-> s]

Num(q) == [num |-> q]

Undefined == [undef |-> TRUE]

IsString(v) == DOMAIN v = {"str"}

IsNumber(v) == DOMAIN v = {"num"}

IsUndefined(v) == DOMAIN v = {"undef"}

\* !v is false: a non-empty string or a number other than 0 and NaN
TruthyValue(v) ==
    IF IsString(v) THEN Len(v.str) > 0
    ELSE IF IsNumber(v) THEN Truthy(v.num)
    ELSE FALSE

\* the decimal digits of a natural number
RECURSIVE NatToString(_)
NatToString(n) ==
    IF n < 10 THEN <<Digits[n + 1]>>
    ELSE NatToString(n \div 10) \o <<Digits[(n % 10) + 1]>>

\* Number.prototype.toString for the non-negative numbers with at most one
\* decimal place, which are the numbers the module formats
NumberToString(q) ==
    IF q[2] = 1 THEN NatToString(q[1])
    ELSE NatToString(q[1] \div q[2])
         \o <<".">> \o NatToString(((q[1] % q[2]) * 10) \div q[2])

\* the string a template literal `${v}` renders
StringOf(v) ==
    IF IsString(v) THEN v.str
    ELSE IF IsNumber(v) THEN NumberToString(v.num)
    ELSE <<"u", "n", "d", "e", "f", "i", "n", "e", "d">>

\* the value of the longest prefix of digits of s
RECURSIVE DigitPrefix(_, _)
DigitPrefix(s, acc) ==
    IF s = <<>> \/ Head(s) \notin DigitChars THEN acc
    ELSE DigitPrefix(Tail(s), 10 * acc + DigitValue(Head(s)))

\* parseInt(s, 10) of a string without sign or leading white space
ParseIntStr(s) ==
    IF s = <<>> \/ Head(s) \notin DigitChars THEN NaN ELSE N(DigitPrefix(s, 0))

\* parseInt(v, 10): the argument is converted to a string first
parseInt(v) == ParseIntStr(StringOf(v))

\* String.prototype.split(sep) for a one-character separator: the pieces
\* between consecutive occurrences of sep, the ends of s included
Split(s, sep) ==
    LET at == {i \in 1..Len(s) : s[i] = sep}
        \* the position of the j-th separator; 0 and Len(s) + 1 bracket them
        cut(j) == IF j = 0 THEN 0
                  ELSE IF j > Cardinality(at) THEN Len(s) + 1
                  ELSE CHOOSE i \in at : Cardinality({k \in at : k < i}) = j - 1
    IN  [j \in 1..(Cardinality(at) + 1) |-> SubSeq(s, cut(j - 1) + 1, cut(j) - 1)]

\* Array.prototype.join(sep) of an array of strings
RECURSIVE Join(_, _)
Join(parts, sep) ==
    IF parts = <<>> THEN <<>>
    ELSE IF Len(parts) = 1 THEN parts[1]
    ELSE parts[1] \o sep \o Join(Tail(parts), sep)

-----------------------------------------------------------------------------
(* The trait registry *)

FC == <<"F", "C">>

SZ == <<"S", "Z">>

LS == <<"L", "S">>

BP == <<"B", "P">>

GR == <<"G", "R">>

YD == <<"Y", "D">>

RS == <<"R", "S">>

WN == <<"W", "N">>

\* Object.keys(GENE_TRAITS), in the registry's iteration order
TraitKeys == <<FC, SZ, LS, BP, GR, YD, RS, WN>>

TraitKeySet == {TraitKeys[i] : i \in 1..Len(TraitKeys)}

FlowerAlleles ==
    [c \in {"R", "B", "Y", "W", "P"} |->
        CASE c = "R" -> [name |-> "Red", dominance |-> 2, value |-> "#FF5555"]
          [] c = "B" -> [name |-> "Blue", dominance |-> 2, value |-> "#5555FF"]
          [] c = "Y" -> [name |-> "Yellow", dominance |-> 2, value |-> "#FFFF55"]
          [] c = "W" -> [name |-> "White", dominance |-> 1, value |-> "#FFFFFF"]
          [] c = "P" -> [name |-> "Pink", dominance |-> 2, value |-> "#FF55FF"]]

FlowerBlendMap ==
    [p \in {<<"R", "B">>, <<"R", "Y">>, <<"B", "Y">>, <<"R", "W">>, <<"B", "W">>,
            <<"Y", "W">>, <<"R", "P">>, <<"B", "P">>, <<"Y", "P">>} |->
        CASE p = <<"R", "B">> -> [name |-> "Purple", value |-> "#9955FF"]
          [] p = <<"R", "Y">> -> [name |-> "Orange", value |-> "#FF9955"]
          [] p = <<"B", "Y">> -> [name |-> "Green", value |-> "#55FF55"]
          [] p = <<"R", "W">> -> [name |-> "Light Red", value |-> "#FF9999"]
          [] p = <<"B", "W">> -> [name |-> "Light Blue", value |-> "#9999FF"]
          [] p = <<"Y", "W">> -> [name |-> "Light Yellow", value |-> "#FFFF99"]
          [] p = <<"R", "P">> -> [name |-> "Deep Pink", value |-> "#FF5599"]
          [] p = <<"B", "P">> -> [name |-> "Purple", value |-> "#9955FF"]
          [] p = <<"Y", "P">> -> [name |-> "Peach", value |-> "#FFAA77"]]

LeafAlleles ==
    [c \in {"1", "2", "3"} |->
        CASE c = "1" -> [name |-> "Oval", dominance |-> 2, value |-> "oval"]
          [] c = "2" -> [name |-> "Heart", dominance |-> 2, value |-> "heart"]
          [] c = "3" -> [name |-> "Pointed", dominance |-> 2, value |-> "pointed"]]

\* a function with the empty domain: a trait without blendMap
NoBlendMap == [p \in {} |-> [name |-> "", value |-> ""]]

SizeValueMap ==
    [v \in {N(1), N(2), N(3), N(4), N(5)} |->
        CASE v = N(1) -> [scale |-> Q(7, 10), growthModifier |-> Q(12, 10), waterModifier |-> Q(8, 10)]
          [] v = N(2) -> [scale |-> Q(85, 100), growthModifier |-> Q(11, 10), waterModifier |-> Q(9, 10)]
          [] v = N(3) -> [scale |-> N(1), growthModifier |-> N(1), waterModifier |-> N(1)]
          [] v = N(4) -> [scale |-> Q(115, 100), growthModifier |-> Q(9, 10), waterModifier |-> Q(11, 10)]
          [] v = N(5) -> [scale |-> Q(13, 10), growthModifier |-> Q(8, 10), waterModifier |-> Q(12, 10)]]

BranchValueMap ==
    [v \in {N(1), N(2), N(3)} |->
        CASE v = N(1) -> [branches |-> N(1), angle |-> N(0)]
          [] v = N(2) -> [branches |-> N(2), angle |-> N(30)]
          [] v = N(3) -> [branches |-> N(3), angle |-> N(25)]]

GrowthValueMap ==
    [v \in {Q(1, 2), Q(7, 10), N(1), Q(12, 10), Q(3, 2)} |->
        CASE v = Q(1, 2) -> [daysToMature |-> N(15)]
          [] v = Q(7, 10) -> [daysToMature |-> N(12)]
          [] v = N(1) -> [daysToMature |-> N(10)]
          [] v = Q(12, 10) -> [daysToMature |-> N(8)]
          [] v = Q(3, 2) -> [daysToMature |-> N(6)]]

YieldValueMap ==
    [v \in {N(1), N(2), N(3), N(4), N(5)} |->
        CASE v = N(1) -> [coinMultiplier |-> Q(8, 10), seedChance |-> Q(3, 10)]
          [] v = N(2) -> [coinMultiplier |-> Q(9, 10), seedChance |-> Q(4, 10)]
          [] v = N(3) -> [coinMultiplier |-> N(1), seedChance |-> Q(5, 10)]
          [] v = N(4) -> [coinMultiplier |-> Q(12, 10), seedChance |-> Q(6, 10)]
          [] v = N(5) -> [coinMultiplier |-> Q(15, 10), seedChance |-> Q(7, 10)]]

ResistanceValueMap ==
    [v \in {N(1), N(2), N(3)} |->
        CASE v = N(1) -> [pestDamageChance |-> Q(5, 10), weatherDamageChance |-> Q(4, 10)]
          [] v = N(2) -> [pestDamageChance |-> Q(2, 10), weatherDamageChance |-> Q(2, 10)]
          [] v = N(3) -> [pestDamageChance |-> Q(5, 100), weatherDamageChance |-> Q(5, 100)]]

WaterValueMap ==
    [v \in {N(1), N(2), N(3)} |->
        CASE v = N(1) -> [waterPerDay |-> N(10), droughtResistance |-> Q(7, 10)]
          [] v = N(2) -> [waterPerDay |-> N(20), droughtResistance |-> Q(5, 10)]
          [] v = N(3) -> [waterPerDay |-> N(30), droughtResistance |-> Q(3, 10)]]

Qualitative(n, keys, als, blend, def) ==
    [name |-> n, type |-> "qualitative", alleleKeys |-> keys, alleles |-> als,
     blendMap |-> blend, defaultValue |-> Str(def)]

Quantitative(n, lo, hi, def, vmap) ==
    [name |-> n, type |-> "quantitative", min |-> lo, max |-> hi,
     defaultValue |-> Num(def), valueMap |-> vmap]

GENE_TRAITS ==
    [k \in TraitKeySet |->
        CASE k = FC -> Qualitative("Flower Color", <<"R", "B", "Y", "W", "P">>,
                                   FlowerAlleles, FlowerBlendMap, <<"W", "W">>)
          [] k = SZ -> Quantitative("Size", N(1), N(5), N(3), SizeValueMap)
          [] k = LS -> Qualitative("Leaf Shape", <<"1", "2", "3">>,
                                   LeafAlleles, NoBlendMap, <<"1", "1">>)
          [] k = BP -> Quantitative("Branching Pattern", N(1), N(3), N(1), BranchValueMap)
          [] k = GR -> Quantitative("Growth Rate", Q(1, 2), Q(3, 2), N(1), GrowthValueMap)
          [] k = YD -> Quantitative("Yield", N(1), N(5), N(3), YieldValueMap)
          [] k = RS -> Quantitative("Resistance", N(1), N(3), N(2), ResistanceValueMap)
          [] k = WN -> Quantitative("Water Needs", N(1), N(3), N(2), WaterValueMap)]

\* GENE_TRAITS[key] is truthy: key is an own key of the registry.  (Names that
\* Object.prototype defines, such as "constructor", are outside the key
\* alphabet of the model.)
IsTrait(key) == key \in TraitKeySet

-----------------------------------------------------------------------------
(* Objects with observable key order: sequences of [k, v] entries *)

HasKey(obj, key) == \E i \in 1..Len(obj) : obj[i].k = key

KeysOf(obj) == [i \in 1..Len(obj) |-> obj[i].k]

KeySetOf(obj) == {obj[i].k : i \in 1..Len(obj)}

\* obj[key], undefined when the key is absent
Get(obj, key) ==
    IF HasKey(obj, key)
    THEN obj[CHOOSE i \in 1..Len(obj) : obj[i].k = key].v
    ELSE Undefined

\* obj[key] = val: an existing key keeps its position, a new key goes last
Put(obj, key, val) ==
    IF HasKey(obj, key)
    THEN [i \in 1..Len(obj) |-> IF obj[i].k = key THEN [k |-> key, v |-> val] ELSE obj[i]]
    ELSE Append(obj, [k |-> key, v |-> val])

\* the object as a mapping, insertion order forgotten
AsMapping(obj) == [key \in KeySetOf(obj) |-> Get(obj, key)]

-----------------------------------------------------------------------------
(* The gene sequence codec *)

\* one iteration of the forEach of parseGeneSequence over the segments
ParseSegment(acc, segment) ==
    LET parts == Split(segment, ":")
        geneKey == parts[1]
        value == IF Len(parts) >= 2 THEN Str(parts[2]) ELSE Undefined
    IN  IF ~IsTrait(geneKey)
        THEN Put(acc, geneKey, Str(<<"0", "0">>))
        ELSE Put(acc, geneKey, value)

\* the loop over the segments left at the first unknown key
RECURSIVE ParseSegmentsUntilUnknown(_, _)
ParseSegmentsUntilUnknown(acc, segments) ==
    IF segments = <<>> THEN acc
    ELSE IF ~IsTrait(Split(Head(segments), ":")[1])
         THEN ParseSegment(acc, Head(segments))
         ELSE ParseSegmentsUntilUnknown(ParseSegment(acc, Head(segments)), Tail(segments))

RECURSIVE ParseSegments(_, _)
ParseSegments(acc, segments) ==
    IF segments = <<>> THEN acc
    ELSE ParseSegments(ParseSegment(acc, Head(segments)), Tail(segments))

\* the second forEach of parseGeneSequence: missing genes get their default
RECURSIVE FillDefaults(_, _)
FillDefaults(acc, keys) ==
    IF keys = <<>> THEN acc
    ELSE FillDefaults(
            IF ~TruthyValue(Get(acc, Head(keys)))
            THEN Put(acc, Head(keys), GENE_TRAITS[Head(keys)].defaultValue)
            ELSE acc,
            Tail(keys))

parseGeneSequence(sequence) ==
    FillDefaults(ParseSegments(<<>>, Split(sequence, "-")), TraitKeys)

generateDefaultGeneSequence ==
    Join([i \in 1..Len(TraitKeys) |->
            TraitKeys[i] \o <<":">> \o StringOf(GENE_TRAITS[TraitKeys[i]].defaultValue)],
         <<"-">>)

\* toGeneSequence of a plant whose genes object is g
toGeneSequence(g) ==
    Join([i \in 1..Len(g) |-> g[i].k \o <<":">> \o StringOf(g[i].v)], <<"-">>)

-----------------------------------------------------------------------------
(* The phenotype resolver *)

\* the result of indexing past the end of a string, or of a lookup that misses
UndefinedChar == "undefined"

\* s[i] with JavaScript's zero-based index
CharAt(s, i) == IF i + 1 <= Len(s) THEN s[i + 1] ELSE UndefinedChar

\* value[i] of a genes value: only a string has characters
ValueCharAt(v, i) == IF IsString(v) THEN CharAt(v.str, i) ELSE UndefinedChar

\* [a, b].sort().join(""): undefined sorts last and joins as the empty string
SortedAlleles(a, b) ==
    LET pair == IF a = UndefinedChar THEN <<b, a>>
                ELSE IF b = UndefinedChar THEN <<a, b>>
                ELSE IF CharCode(b) < CharCode(a) THEN <<b, a>>
                ELSE <<a, b>>
    IN  SelectSeq(pair, LAMBDA c : c # UndefinedChar)

\* the first allele of the trait, whatever the character
AlleleOfFirstDefined(gene, c) == gene.alleles[gene.alleleKeys[1]]

\* gene.alleles[c], undefined when c is no allele of the trait
AlleleOf(gene, c) ==
    IF c \in DOMAIN gene.alleles THEN gene.alleles[c] ELSE Undefined

\* the qualitative branch with "Equal dominance, use the first one" taking
\* the second allele
ResolveQualitativeSecondOnTie(gene, value) ==
    LET c0 == ValueCharAt(value, 0)
        c1 == ValueCharAt(value, 1)
        sortedAlleles == SortedAlleles(c0, c1)
        allele1 == AlleleOf(gene, c0)
        allele2 == AlleleOf(gene, c1)
    IN  IF c0 = c1 THEN AlleleOf(gene, c0)
        ELSE IF sortedAlleles \in DOMAIN gene.blendMap
             THEN gene.blendMap[sortedAlleles]
        ELSE IF allele1 = Undefined \/ allele2 = Undefined
             THEN gene.alleles[gene.alleleKeys[1]]
        ELSE IF allele1.dominance > allele2.dominance THEN allele1
        ELSE allele2

\* the qualitative branch without the lookup of the blend
ResolveQualitativeWithoutBlend(gene, value) ==
    LET c0 == ValueCharAt(value, 0)
        c1 == ValueCharAt(value, 1)
        allele1 == AlleleOf(gene, c0)
        allele2 == AlleleOf(gene, c1)
    IN  IF c0 = c1 THEN AlleleOf(gene, c0)
        ELSE IF allele1 = Undefined \/ allele2 = Undefined
             THEN gene.alleles[gene.alleleKeys[1]]
        ELSE IF allele1.dominance > allele2.dominance THEN allele1
        ELSE IF allele2.dominance > allele1.dominance THEN allele2
        ELSE allele1

\* the qualitative branch of calculatePhenotype
ResolveQualitative(gene, value) ==
    LET c0 == ValueCharAt(value, 0)
        c1 == ValueCharAt(value, 1)
        sortedAlleles == SortedAlleles(c0, c1)
        allele1 == AlleleOf(gene, c0)
        allele2 == AlleleOf(gene, c1)
    IN  IF c0 = c1 THEN AlleleOf(gene, c0)
        ELSE IF sortedAlleles \in DOMAIN gene.blendMap
             THEN gene.blendMap[sortedAlleles]
        ELSE IF allele1 = Undefined \/ allele2 = Undefined
             THEN gene.alleles[gene.alleleKeys[1]]
        ELSE IF allele1.dominance > allele2.dominance THEN allele1
        ELSE IF allele2.dominance > allele1.dominance THEN allele2
        ELSE allele1

\* the numericValue without "Clamp to valid range"
NumericValueUnclamped(gene, value) ==
    IF IsString(value) /\ Len(value.str) = 2
    THEN LET allele1 == OrElse(parseInt(Str(<<value.str[1]>>)), gene.min)
             allele2 == OrElse(parseInt(Str(<<value.str[2]>>)), gene.min)
         IN  MathRound(Div(Add(allele1, allele2), N(2)))
    ELSE OrElse(parseInt(value), gene.defaultValue.num)

\* the numericValue of the quantitative branch, after the clamp
NumericValue(gene, value) ==
    LET raw == IF IsString(value) /\ Len(value.str) = 2
               THEN LET allele1 == OrElse(parseInt(Str(<<value.str[1]>>)), gene.min)
                        allele2 == OrElse(parseInt(Str(<<value.str[2]>>)), gene.min)
                    IN  MathRound(Div(Add(allele1, allele2), N(2)))
               ELSE OrElse(parseInt(value), gene.defaultValue.num)
    IN  MathMax(gene.min, MathMin(gene.max, raw))

\* the quantitative branch of calculatePhenotype: { value, ...valueMap[value] }
ResolveQuantitative(gene, value) ==
    LET numericValue == NumericValue(gene, value)
    IN  IF numericValue \in DOMAIN gene.valueMap
        THEN ("value" :> numericValue) @@ gene.valueMap[numericValue]
        ELSE ("value" :> numericValue)

\* the phenotype before the trait interactions: one entry per key of genes
\* that the registry knows
BasePhenotype(g) ==
    [key \in KeySetOf(g) \cap TraitKeySet |->
        IF GENE_TRAITS[key].type = "qualitative"
        THEN ResolveQualitative(GENE_TRAITS[key], Get(g, key))
        ELSE ResolveQuantitative(GENE_TRAITS[key], Get(g, key))]

\* phenotype.KEY is truthy
Present(ph, key) == key \in DOMAIN ph /\ ph[key] # Undefined

\* rec.field || dflt
FieldOr(rec, field, dflt) ==
    IF field \in DOMAIN rec THEN OrElse(rec[field], dflt) ELSE dflt

\* rec.field = val
SetField(rec, field, val) == (field :> val) @@ rec

\* the number of genes whose value is a two-character string of equal characters
RECURSIVE homozygousCount(_)
homozygousCount(g) ==
    IF g = <<>> THEN 0
    ELSE (IF IsString(Head(g).v) /\ Len(Head(g).v.str) = 2
             /\ Head(g).v.str[1] = Head(g).v.str[2] THEN 1 ELSE 0)
         + homozygousCount(Tail(g))

inbreedingThreshold == 5

GrowthSizeInteraction(ph) ==
    IF Present(ph, GR) /\ Present(ph, SZ)
    THEN LET sizeEffect == FieldOr(ph[SZ], "growthModifier", N(1))
             baseGrowthDays ==
                 IF ph[GR].value \in DOMAIN GrowthValueMap
                 THEN FieldOr(GrowthValueMap[ph[GR].value], "daysToMature", N(10))
                 ELSE N(10)
         IN  [ph EXCEPT ![GR] =
                SetField(SetField(@, "effectiveValue", Mul(@.value, sizeEffect)),
                         "daysToMature", MathRound(Div(baseGrowthDays, sizeEffect)))]
    ELSE ph

WaterSizeInteraction(ph) ==
    IF Present(ph, WN) /\ Present(ph, SZ)
    THEN LET sizeEffect == FieldOr(ph[SZ], "waterModifier", N(1))
             baseWaterNeeds == FieldOr(ph[WN], "waterPerDay", N(20))
         IN  [ph EXCEPT ![WN] =
                SetField(@, "effectiveWaterPerDay",
                         MathRound(Mul(baseWaterNeeds, sizeEffect)))]
    ELSE ph

GrowthResistanceInteraction(ph) ==
    IF Present(ph, GR) /\ Present(ph, RS) /\ Gt(ph[GR].value, Q(12, 10))
    THEN [ph EXCEPT ![RS] =
            SetField(@, "effectivePestDamageChance",
                MathMin(N(1),
                    Mul(@.pestDamageChance,
                        Add(N(1), Mul(Sub(ph[GR].value, N(1)), Q(1, 2))))))]
    ELSE IF Present(ph, RS)
    THEN [ph EXCEPT ![RS] = SetField(@, "effectivePestDamageChance", @.pestDamageChance)]
    ELSE ph

\* the inbreeding depression with a factor that forgets the threshold
InbreedingDepressionFromZero(ph, g) ==
    IF homozygousCount(g) > inbreedingThreshold /\ Present(ph, YD)
    THEN [ph EXCEPT ![YD] =
            SetField(@, "effectiveCoinMultiplier",
                     Mul(@.coinMultiplier,
                         Sub(N(1), Mul(N(homozygousCount(g)), Q(1, 10)))))]
    ELSE IF Present(ph, YD)
    THEN [ph EXCEPT ![YD] = SetField(@, "effectiveCoinMultiplier", @.coinMultiplier)]
    ELSE ph

InbreedingDepression(ph, g) ==
    IF homozygousCount(g) > inbreedingThreshold
    THEN IF Present(ph, YD)
         THEN LET inbreedingFactor ==
                      Sub(N(1), Mul(N(homozygousCount(g) - inbreedingThreshold), Q(1, 10)))
              IN  [ph EXCEPT ![YD] =
                     SetField(@, "effectiveCoinMultiplier",
                              Mul(@.coinMultiplier, inbreedingFactor))]
         ELSE ph
    ELSE IF Present(ph, YD)
    THEN [ph EXCEPT ![YD] = SetField(@, "effectiveCoinMultiplier", @.coinMultiplier)]
    ELSE ph

calculateTraitInteractions(ph, g) ==
    InbreedingDepression(
        GrowthResistanceInteraction(WaterSizeInteraction(GrowthSizeInteraction(ph))), g)

calculatePhenotype(g) == calculateTraitInteractions(BasePhenotype(g), g)

-----------------------------------------------------------------------------
(* The plant: constructor, update, harvest *)

\* the argument null of the constructor
Null == <<"null">>

\* geneSequence || this.generateDefaultGeneSequence(): null and "" are falsy
SequenceOrDefault(geneSequence) ==
    IF geneSequence = Null \/ geneSequence = <<>>
    THEN generateDefaultGeneSequence
    ELSE geneSequence

\* the outcomes Math.random() < p can have, Math.random() ranging over [0, 1)
RandomBelow(p) == {b \in BOOLEAN : (b => Gt(p, N(0))) /\ (~b => Lt(p, N(1)))}

\* the outcomes Math.random() > p can have
RandomAbove(p) == {b \in BOOLEAN : (b => Lt(p, N(1))) /\ (~b => Ge(p, N(0)))}

\* phenotype.KEY?.field || dflt
TraitFieldOr(ph, key, field, dflt) ==
    IF Present(ph, key) THEN FieldOr(ph[key], field, dflt) ELSE dflt

\* growthIncrement after the growth rate modifier
BaseGrowth(ph) ==
    IF Present(ph, GR)
    THEN Mul(N(10), FieldOr(ph[GR], "effectiveValue", ph[GR].value))
    ELSE N(10)

\* the water effect with the health penalty added instead of subtracted
WaterEffectHealing(ph, growthIncrement, h, waterLevel) ==
    LET waterNeeds == TraitFieldOr(ph, WN, "effectiveWaterPerDay", N(20))
        waterRatio == Div(waterLevel, waterNeeds)
    IN  IF Lt(waterLevel, waterNeeds)
        THEN [growth |-> Mul(growthIncrement, waterRatio),
              health |-> IF Lt(waterRatio, Q(1, 2))
                         THEN Add(h, Mul(Sub(N(1), waterRatio), N(5)))
                         ELSE h,
              watered |-> FALSE]
        ELSE [growth |-> growthIncrement, health |-> h, watered |-> TRUE]

\* the water effect: growthIncrement, health and watered after it
WaterEffect(ph, growthIncrement, h, waterLevel) ==
    LET waterNeeds == TraitFieldOr(ph, WN, "effectiveWaterPerDay", N(20))
        waterRatio == Div(waterLevel, waterNeeds)
    IN  IF Lt(waterLevel, waterNeeds)
        THEN [growth |-> Mul(growthIncrement, waterRatio),
              health |-> IF Lt(waterRatio, Q(1, 2))
                         THEN Sub(h, Mul(Sub(N(1), waterRatio), N(5)))
                         ELSE h,
              watered |-> FALSE]
        ELSE [growth |-> growthIncrement, health |-> h, watered |-> TRUE]

\* pest damage, given whether Math.random() fell below the damage chance
PestEffect(s, pestPresent, hit) ==
    IF pestPresent /\ hit
    THEN [s EXCEPT !.growth = Mul(@, Q(1, 2)), !.health = Sub(@, N(10))]
    ELSE s

\* weather effects, given the outcome of the random comparison of the event
WeatherEffect(s, weatherEvent, hit) ==
    IF weatherEvent = "drought" /\ hit
    THEN [s EXCEPT !.growth = Mul(@, Q(3, 10)), !.health = Sub(@, N(15))]
    ELSE IF weatherEvent = "storm" /\ hit
    THEN [s EXCEPT !.growth = N(0), !.health = Sub(@, N(20))]
    ELSE s

\* the random outcomes a pest check can have
PestOutcomes(ph, pestPresent) ==
    IF pestPresent
    THEN RandomBelow(TraitFieldOr(ph, RS, "effectivePestDamageChance", Q(2, 10)))
    ELSE {FALSE}

\* the random outcomes a weather check can have
WeatherOutcomes(ph, weatherEvent) ==
    LET weatherDamageChance == TraitFieldOr(ph, RS, "weatherDamageChance", Q(2, 10))
        droughtResistance == TraitFieldOr(ph, WN, "droughtResistance", Q(1, 2))
        size == TraitFieldOr(ph, SZ, "value", N(3))
        stormVulnerability == Div(size, N(5))
    IN  IF weatherEvent = "drought" THEN RandomAbove(droughtResistance)
        ELSE IF weatherEvent = "storm"
        THEN RandomBelow(Mul(weatherDamageChance, stormVulnerability))
        ELSE {FALSE}

\* growthIncrement, health and watered once water, pest and weather have acted
Penalised(ph, h, waterLevel, pestPresent, pestHit, weatherEvent, weatherHit) ==
    WeatherEffect(
        PestEffect(WaterEffect(ph, BaseGrowth(ph), h, waterLevel), pestPresent, pestHit),
        weatherEvent, weatherHit)

\* the growth applied without the cap of the progress
ApplyGrowthUncapped(p, r, growthIncrement) ==
    LET q == Add(p, growthIncrement)
    IN  [progress |-> q, ready |-> r \/ Ge(q, N(100))]

\* "Cap progress at 100%": progress and ready after the growth is applied
ApplyGrowth(p, r, growthIncrement) ==
    LET q == Add(p, growthIncrement)
    IN  IF Ge(q, N(100)) THEN [progress |-> N(100), ready |-> TRUE]
        ELSE [progress |-> q, ready |-> r]

\* "Cap health at 0-100"
CapHealth(h) == MathMax(N(0), MathMin(N(100), h))

\* the event with "health < 0" for the death check
UpdateEventBelowZero(h, r) ==
    IF Lt(h, N(0)) THEN "died" ELSE IF r THEN "matured" ELSE "growing"

\* the event update() returns
UpdateEvent(h, r) ==
    IF Le(h, N(0)) THEN "died" ELSE IF r THEN "matured" ELSE "growing"

\* update() without its first line
UpdateSkipsNever(r) == FALSE

\* update() returns undefined and changes nothing: "Skip update if already harvested"
UpdateSkips(r) == r

update(waterLevel, pestPresent, pestHit, weatherEvent, weatherHit) ==
    /\ pc = "plant"
    /\ IF UpdateSkips(ready)
       THEN /\ ret' = [op |-> "update", event |-> "undefined"]
            /\ UNCHANGED <<progress, health, ready, watered>>
       ELSE LET s == Penalised(phenotype, health, waterLevel, pestPresent, pestHit,
                               weatherEvent, weatherHit)
                g == ApplyGrowth(progress, ready, s.growth)
                h == CapHealth(s.health)
            IN  /\ progress' = g.progress
                /\ ready' = g.ready
                /\ watered' = s.watered
                /\ health' = IF Le(h, N(0)) THEN N(0) ELSE h
                /\ ret' = [op |-> "update", event |-> UpdateEvent(h, g.ready)]
    /\ UNCHANGED <<input, pc, genes, phenotype, reparsed, permuted>>
    /\ UNCHANGED breederVars
    /\ UNCHANGED gardenVars

\* the coins of a harvest
HarvestCoins(ph) ==
    LET yieldMultiplier == TraitFieldOr(ph, YD, "effectiveCoinMultiplier", N(1))
        baseCoins == N(10)
    IN  MathRound(Mul(baseCoins, yieldMultiplier))

\* the sellPrice of getInfo()
SellPrice(ph) ==
    LET basePrice == N(10)
        yieldMultiplier == TraitFieldOr(ph, YD, "effectiveCoinMultiplier", N(1))
    IN  MathRound(Mul(basePrice, yieldMultiplier))

\* harvest() without the check of ready
HarvestRefusesNever(r) == FALSE

\* harvest() refuses: the plant is not ready
HarvestRefuses(r) == ~r

harvest(seedDrawn) ==
    /\ pc = "plant"
    /\ IF HarvestRefuses(ready)
       THEN ret' = [op |-> "harvest", success |-> FALSE]
       ELSE ret' = [op |-> "harvest", success |-> TRUE,
                    coins |-> HarvestCoins(phenotype),
                    seeds |-> IF seedDrawn THEN 1 ELSE 0,
                    geneSequence |-> toGeneSequence(genes)]
    /\ UNCHANGED <<input, pc, genes, phenotype, progress, health, ready, watered,
                   reparsed, permuted>>
    /\ UNCHANGED breederVars
    /\ UNCHANGED gardenVars

\* new Plant(input)
Construct ==
    /\ pc = "new"
    /\ pc' = "plant"
    /\ genes' = parseGeneSequence(SequenceOrDefault(input))
    /\ phenotype' = calculatePhenotype(genes')
    /\ progress' = N(0)
    /\ health' = N(100)
    /\ ready' = FALSE
    /\ watered' = TRUE
    /\ UNCHANGED <<input, ret, reparsed, permuted>>
    /\ UNCHANGED breederVars
    /\ UNCHANGED gardenVars

-----------------------------------------------------------------------------
(* Gene sequences handed to the constructor *)

Segment(key, value) == key \o <<":">> \o value

Sequence8(fc, sz, ls, bp, gr, yd, rs, wn) ==
    Join(<<Segment(FC, fc), Segment(SZ, sz), Segment(LS, ls), Segment(BP, bp),
           Segment(GR, gr), Segment(YD, yd), Segment(RS, rs), Segment(WN, wn)>>,
         <<"-">>)

\* the gene sequences of createStarterPlant
StarterSequence(type) ==
    CASE type = "carrot" ->
            Sequence8(<<"R", "Y">>, <<"2", "2">>, <<"3", "3">>, <<"1", "1">>,
                      <<"1", "2">>, <<"4", "4">>, <<"2", "2">>, <<"2", "2">>)
      [] type = "tomato" ->
            Sequence8(<<"R", "R">>, <<"3", "3">>, <<"1", "1">>, <<"2", "2">>,
                      <<"1", "0">>, <<"3", "3">>, <<"3", "3">>, <<"2", "2">>)
      [] type = "corn" ->
            Sequence8(<<"Y", "Y">>, <<"5", "5">>, <<"3", "3">>, <<"3", "3">>,
                      <<"0", "8">>, <<"5", "5">>, <<"2", "2">>, <<"3", "3">>)
      [] OTHER ->
            Sequence8(<<"R", "B">>, <<"3", "3">>, <<"1", "1">>, <<"1", "1">>,
                      <<"1", "0">>, <<"3", "3">>, <<"2", "2">>, <<"2", "2">>)

\* a gene sequence with every trait homozygous
HomozygousSequence ==
    Sequence8(<<"P", "P">>, <<"1", "1">>, <<"2", "2">>, <<"2", "2">>,
              <<"1", "1">>, <<"5", "5">>, <<"1", "1">>, <<"1", "1">>)

\* the largest number of segments with keys unknown to the registry that an
\* input carries
MaxUnknownKeys == 8

\* n segments whose keys X1, X2, ... the registry does not know
RECURSIVE UnknownSegments(_)
UnknownSegments(n) ==
    IF n = 0 THEN <<>>
    ELSE UnknownSegments(n - 1)
         \o <<"-">> \o Segment(<<"X">> \o NatToString(n), <<"A", "B">>)

PlantInputs ==
    {Null}
    \cup {StarterSequence(t) : t \in {"carrot", "tomato", "corn", "generic"}}
    \cup {HomozygousSequence \o UnknownSegments(n) : n \in 0..MaxUnknownKeys}

\* the plants whose whole life cycle is explored
GrowingInputs == {StarterSequence("generic"), StarterSequence("carrot")}

\* the arguments of one update() call
Call(w, p, e) == [waterLevel |-> N(w), pestPresent |-> p, weatherEvent |-> e]

\* update() as the integration calls it, with its default arguments
DefaultCall == Call(100, FALSE, "none")

\* the update() calls explored: enough water, none, a pest, a drought, and
\* no water with a pest in a storm
Calls ==
    {DefaultCall, Call(0, FALSE, "none"),
     Call(100, TRUE, "none"), Call(100, FALSE, "drought"),
     Call(0, TRUE, "storm")}

-----------------------------------------------------------------------------
(* The life cycle of one plant *)

NoBreeder ==
    /\ parents = <<Null, Null>>
    /\ crossingHistory = <<>>
    /\ offspring = [none |-> TRUE]
    /\ mutations = 0
    /\ returned = 0

\* the garden page is not loaded
NoGarden ==
    /\ game = [none |-> TRUE]
    /\ runs = 0
    /\ timers = {}

NoPlant ==
    /\ pc = "new"
    /\ genes = <<>>
    /\ phenotype = <<>>
    /\ progress = N(0)
    /\ health = N(100)
    /\ ready = FALSE
    /\ watered = TRUE
    /\ ret = [op |-> "none"]
    /\ reparsed = <<>>
    /\ permuted = <<>>

Init ==
    /\ input \in GrowingInputs
    /\ NoPlant
    /\ NoGarden
    /\ NoBreeder

UpdateWith(c) ==
    \E pestHit \in PestOutcomes(phenotype, c.pestPresent),
       weatherHit \in WeatherOutcomes(phenotype, c.weatherEvent) :
        update(c.waterLevel, c.pestPresent, pestHit, c.weatherEvent, weatherHit)

Update == \E c \in Calls : UpdateWith(c)

Harvest ==
    \E seedDrawn \in RandomBelow(TraitFieldOr(phenotype, YD, "seedChance", Q(1, 2))) :
        harvest(seedDrawn)

Next == Construct \/ Update \/ Harvest

Spec == Init /\ [][Next]_vars

-----------------------------------------------------------------------------
(* Harvests: every plant of PlantInputs, grown by update() with its default *)
(* arguments                                                                *)

InitHarvest ==
    /\ input \in PlantInputs
    /\ NoPlant
    /\ NoGarden
    /\ NoBreeder

UpdateDefault == UpdateWith(DefaultCall)

NextHarvest == Construct \/ UpdateDefault \/ Harvest

SpecHarvest == InitHarvest /\ [][NextHarvest]_vars

-----------------------------------------------------------------------------
(* Water levels: the generic starter plant under update() calls with too    *)
(* little, enough and a negative amount of water                            *)

\* the water levels tried: less than nothing, less than half the need, enough
WaterLevels == {-20, 5, 100}

\* the update() calls tried: every water level, and a pest in a storm
WaterCalls ==
    {Call(w, FALSE, "none") : w \in WaterLevels} \cup {Call(100, TRUE, "storm")}

\* how far below 0 the progress may be for a call with a negative water
\* level to be explored
MaxDeficit == 10

InitWater ==
    /\ input = StarterSequence("generic")
    /\ NoPlant
    /\ NoGarden
    /\ NoBreeder

UpdateWatered ==
    \E c \in WaterCalls :
        /\ Ge(c.waterLevel, N(0)) \/ Ge(progress, N(-MaxDeficit))
        /\ UpdateWith(c)

NextWater == Construct \/ UpdateWatered

SpecWater == InitWater /\ [][NextWater]_vars

-----------------------------------------------------------------------------
(* The codec and the resolver on bounded inputs *)

\* the longest genotype value of the one-segment inputs
MaxValueLen == 3

\* the largest number of segments of the inputs built from SegmentPool
MaxSegments == 2

\* all strings over chars with lo to hi characters
Strings(chars, lo, hi) == UNION {[1..n -> chars] : n \in lo..hi}

\* the characters of the values tried for a trait: its alleles and a character
\* that is none of them; digits, a letter and a dot for a quantitative trait
ValueChars(key) ==
    IF GENE_TRAITS[key].type = "qualitative"
    THEN DOMAIN GENE_TRAITS[key].alleles \cup {"X"}
    ELSE {"0", "3", "9", "x", "."}

\* KEY:VALUE for every trait and every value tried for it, and KEY alone
SingleInputs ==
    UNION {{Segment(key, v) : v \in Strings(ValueChars(key), 0, MaxValueLen)}
           \cup {key} : key \in TraitKeySet}

\* segments with a repeated key, an unknown key, no value and nothing at all
SegmentPool ==
    {Segment(FC, <<"R", "B">>), Segment(FC, <<"W", "W">>), Segment(FC, <<>>),
     Segment(SZ, <<"4", "4">>), Segment(SZ, <<"2">>), SZ,
     Segment(<<"X", "X">>, <<"1", "2">>), Segment(<<"Q">>, <<"5", "5">>), <<>>}

MultiInputs ==
    {Join(segs, <<"-">>) : segs \in Strings(SegmentPool, 2, MaxSegments)}

CodecInputs == {Null} \cup SingleInputs \cup MultiInputs

\* the permutations of 1..n
Perms(n) == {p \in [1..n -> 1..n] : \A i, j \in 1..n : p[i] = p[j] => i = j}

\* parseGeneSequence(this.toGeneSequence()) on the constructed plant
Reparse ==
    /\ pc = "plant"
    /\ reparsed' = [sequence |-> toGeneSequence(genes),
                    genes |-> parseGeneSequence(toGeneSequence(genes))]
    /\ UNCHANGED <<input, pc, genes, phenotype, progress, health, ready, watered,
                   ret, permuted>>
    /\ UNCHANGED breederVars
    /\ UNCHANGED gardenVars

\* parseGeneSequence on the segments of the constructor's sequence in another order
ParsePermuted ==
    /\ pc = "plant"
    /\ LET segs == Split(SequenceOrDefault(input), "-")
       IN  /\ Len(segs) <= MaxSegments
           /\ \E p \in Perms(Len(segs)) :
                LET sequence == Join([i \in 1..Len(segs) |-> segs[p[i]]], <<"-">>)
                IN  permuted' = [sequence |-> sequence,
                                 genes |-> parseGeneSequence(sequence)]
    /\ UNCHANGED <<input, pc, genes, phenotype, progress, health, ready, watered,
                   ret, reparsed>>
    /\ UNCHANGED breederVars
    /\ UNCHANGED gardenVars

InitCodec ==
    /\ input \in CodecInputs
    /\ NoPlant
    /\ NoGarden
    /\ NoBreeder

NextCodec == Construct \/ Reparse \/ ParsePermuted

SpecCodec == InitCodec /\ [][NextCodec]_vars

-----------------------------------------------------------------------------
(* The breeder *)

\* new Plant(geneSequence), as a value
NewPlant(geneSequence) ==
    LET g == parseGeneSequence(SequenceOrDefault(geneSequence))
    IN  [genes |-> g, phenotype |-> calculatePhenotype(g), progress |-> N(0),
         health |-> N(100), ready |-> FALSE, watered |-> TRUE]

\* a missing plant: null or undefined
Absent == [absent |-> TRUE]

\* a parent that always contributes the first allele of the trait
ParentAllelesFirstDefined(key, gene) == {GENE_TRAITS[key].alleleKeys[1]}

\* the allele a parent contributes: any character of its gene, or the first
\* allele of the trait when the gene is no string
ParentAlleles(key, gene) ==
    IF IsString(gene) /\ Len(gene.str) >= 1
    THEN {gene.str[i] : i \in 1..Len(gene.str)}
    ELSE {GENE_TRAITS[key].alleleKeys[1]}

\* the mean of a diploid gene, parseInt of any other
GeneValue(gene) ==
    IF IsString(gene) /\ Len(gene.str) = 2
    THEN Div(Add(parseInt(Str(<<gene.str[1]>>)), parseInt(Str(<<gene.str[2]>>))), N(2))
    ELSE parseInt(gene)

\* isNaN(value) ? defaultValue : value
ValueOrDefault(key, value) ==
    IF isNaN(value) THEN GENE_TRAITS[key].defaultValue.num ELSE value

\* Math.round(averageValue + variation) for the variations Math.random() * 0.6 - 0.3
\* can be: every integer n with n - 1/2 <= x < n + 1/2 for an x of
\* [averageValue - 3/10, averageValue + 3/10)
RoundedWithVariation(averageValue) ==
    LET lo == MathRound(Sub(averageValue, Q(3, 10)))[1]
        hi == MathRound(Add(averageValue, Q(3, 10)))[1]
    IN  {N(n) : n \in {m \in lo..hi :
                        Lt(Sub(N(m), Q(1, 2)), Add(averageValue, Q(3, 10)))}}

\* Math.max(min, Math.min(max, value))
ClampToTrait(key, value) ==
    MathMax(GENE_TRAITS[key].min, MathMin(GENE_TRAITS[key].max, value))

\* `${value}${value}`
Doubled(value) == Str(StringOf(Num(value)) \o StringOf(Num(value)))

\* the genes crossPlants can compute for a trait before mutation
NewGenes(key, geneA, geneB) ==
    IF GENE_TRAITS[key].type = "qualitative"
    THEN {Str(<<a, b>>) : a \in ParentAlleles(key, geneA), b \in ParentAlleles(key, geneB)}
    ELSE LET valueA == ValueOrDefault(key, GeneValue(geneA))
             valueB == ValueOrDefault(key, GeneValue(geneB))
             averageValue == Div(Add(valueA, valueB), N(2))
         IN  {Doubled(ClampToTrait(key, finalValue)) :
                finalValue \in RoundedWithVariation(averageValue)}

\* the genes mutateMutation(gene, geneKey) can return
mutateMutation(gene, geneKey) ==
    IF ~IsTrait(geneKey) THEN {gene}
    ELSE IF GENE_TRAITS[geneKey].type = "qualitative"
    THEN LET alleleKeys == GENE_TRAITS[geneKey].alleleKeys
         IN  IF Len(alleleKeys) = 0 THEN {gene}
             ELSE {IF alleleIndex = 0
                   THEN Str(<<newAllele, gene.str[2]>>)
                   ELSE Str(<<gene.str[1], newAllele>>) :
                        alleleIndex \in 0..(Len(gene.str) - 1),
                        newAllele \in {alleleKeys[i] : i \in 1..Len(alleleKeys)}}
    ELSE LET value == ValueOrDefault(geneKey, GeneValue(gene))
         IN  {Doubled(ClampToTrait(geneKey, MathRound(Add(value, N(step))))) :
                step \in {-1, 1}}

\* the largest number of genes mutated over all the crossings of a breeder
MaxMutations == 1

\* what the forEach over the registry can build from trait i on, with at most
\* budget of the "5% chance per gene" draws hitting: the offspringGenes and the
\* number of genes mutated
RECURSIVE OffspringGenes(_, _, _, _)
OffspringGenes(i, genesA, genesB, budget) ==
    IF i > Len(TraitKeys) THEN {[genes |-> <<>>, mutated |-> 0]}
    ELSE LET key == TraitKeys[i]
             geneA == Get(genesA, key)
             geneB == Get(genesB, key)
             with(g, n, rest) == [genes |-> <<[k |-> key, v |-> g]>> \o rest.genes,
                                  mutated |-> n + rest.mutated]
         IN  IF ~TruthyValue(geneA) \/ ~TruthyValue(geneB)
             THEN {with(GENE_TRAITS[key].defaultValue, 0, rest) :
                      rest \in OffspringGenes(i + 1, genesA, genesB, budget)}
             ELSE {with(g, 0, rest) :
                      g \in NewGenes(key, geneA, geneB),
                      rest \in OffspringGenes(i + 1, genesA, genesB, budget)}
                  \cup
                  (IF budget = 0 THEN {}
                   ELSE {with(m, 1, rest) :
                           m \in UNION {mutateMutation(g, key) :
                                          g \in NewGenes(key, geneA, geneB)},
                           rest \in OffspringGenes(i + 1, genesA, genesB, budget - 1)})

\* the record crossPlants pushes (its date, a timestamp, is left out)
CrossingRecord(plantA, plantB, child) ==
    [parentA |-> toGeneSequence(plantA.genes),
     parentB |-> toGeneSequence(plantB.genes),
     offspring |-> toGeneSequence(child.genes)]

\* crossPlants returns null: a parent is missing
CrossRefuses(plantA, plantB) == plantA = Absent \/ plantB = Absent

\* a history that keeps the latest crossing only
RecordedLatestOnly(history, record) == <<record>>

\* the history after crossPlants has recorded a crossing
Recorded(history, record) == Append(history, record)

\* the largest number of crossings recorded
MaxCrossings == 2

crossPlants(plantA, plantB) ==
    IF CrossRefuses(plantA, plantB)
    THEN /\ offspring' = Absent
         /\ UNCHANGED <<crossingHistory, mutations, returned>>
    ELSE /\ Len(crossingHistory) < MaxCrossings
         /\ \E og \in OffspringGenes(1, plantA.genes, plantB.genes,
                                     MaxMutations - mutations) :
              LET child == NewPlant(toGeneSequence(og.genes))
              IN  /\ offspring' = child
                  /\ mutations' = mutations + og.mutated
                  /\ returned' = returned + 1
                  /\ crossingHistory' =
                        Recorded(crossingHistory, CrossingRecord(plantA, plantB, child))

\* the pairs of plants a breeder is given: two identical homozygous plants
BreederPairs == {<<HomozygousSequence, HomozygousSequence>>}

\* the plant built from a sequence, no plant for Null
PlantOrAbsent(sequence) == IF sequence = Null THEN Absent ELSE NewPlant(sequence)

\* one crossPlants call: each parent is the plant held, or missing
CrossPlants ==
    \E a \in {parents[1], Null}, b \in {parents[2], Null} :
        /\ crossPlants(PlantOrAbsent(a), PlantOrAbsent(b))
        /\ UNCHANGED parents
        /\ UNCHANGED plantVars
        /\ UNCHANGED gardenVars

InitBreeder ==
    /\ input = Null
    /\ NoPlant
    /\ NoGarden
    /\ parents \in BreederPairs
    /\ crossingHistory = <<>>
    /\ offspring = [none |-> TRUE]
    /\ mutations = 0
    /\ returned = 0

NextBreeder == CrossPlants

SpecBreeder == InitBreeder /\ [][NextBreeder]_vars

-----------------------------------------------------------------------------
(* The garden page (src/unnamed/part_000): the game object, the handlers   *)
(* of its buttons and plots, and gameLoop, which setInterval runs every    *)
(* second                                                                   *)

\* game.seedInfo (the emoji is left out)
seedInfo ==
    [type \in {"carrot", "tomato", "corn"} |->
        CASE type = "carrot" -> [growTime |-> 5, price |-> 5, sellPrice |-> 8]
          [] type = "tomato" -> [growTime |-> 8, price |-> 10, sellPrice |-> 16]
          [] type = "corn" -> [growTime |-> 12, price |-> 15, sellPrice |-> 25]]

\* plot.plant of an empty plot
NoSeed == "null"

\* the game object as the script declares it; plots is filled by initPlots
GameState ==
    [money |-> 100,
     seeds |-> [type \in {"carrot", "tomato", "corn"} |-> 0],
     day |-> 1,
     growthSpeed |-> N(1),
     autoHarvest |-> FALSE,
     plots |-> <<>>,
     unlockedPlots |-> 1,
     maxPlots |-> 12,
     speedLevel |-> 1,
     speedCost |-> 30,
     speedMultiplier |-> Q(12, 10),
     plotCost |-> 25,
     harvestCost |-> 50]

\* game after initPlots(): maxPlots plots, the first unlockedPlots unlocked
initPlots(g) ==
    [g EXCEPT !.plots =
        [i \in 1..g.maxPlots |->
            [unlocked |-> i - 1 < g.unlockedPlots, plant |-> NoSeed,
             growth |-> N(0), ready |-> FALSE]]]

\* the most seeds the player holds at a time
MaxSeeds == 2

\* the most plots the player unlocks
MaxUnlocked == 2

\* the most speed levels the player reaches
MaxSpeedLevel == 2

\* the most runs of gameLoop explored
MaxRuns == 10

\* buySeed(type), by a click on one of the three buttons
buySeed ==
    \E type \in DOMAIN seedInfo :
        /\ game.seeds["carrot"] + game.seeds["tomato"] + game.seeds["corn"] < MaxSeeds
        /\ game' = IF game.money >= seedInfo[type].price
                   THEN [game EXCEPT !.money = @ - seedInfo[type].price,
                                     !.seeds[type] = @ + 1]
                   ELSE game
        /\ UNCHANGED <<runs, timers, plantVars, breederVars>>

\* plantSeed(plotIndex), plotIndex counted from 1, by a click on a plot that
\* renderGarden has shown unlocked and empty
plantSeed ==
    \E plotIndex \in {i \in 1..Len(game.plots) :
                         game.plots[i].unlocked /\ game.plots[i].plant = NoSeed} :
        LET totalSeeds == game.seeds["carrot"] + game.seeds["tomato"]
                          + game.seeds["corn"]
            seedType == IF game.seeds["carrot"] > 0 THEN "carrot"
                        ELSE IF game.seeds["tomato"] > 0 THEN "tomato"
                        ELSE "corn"
        IN  /\ game' = IF totalSeeds = 0 THEN game
                       ELSE [game EXCEPT !.seeds[seedType] = @ - 1,
                                         !.plots[plotIndex].plant = seedType,
                                         !.plots[plotIndex].growth = N(0),
                                         !.plots[plotIndex].ready = FALSE]
            /\ UNCHANGED <<runs, timers, plantVars, breederVars>>

\* game after harvestPlot(plotIndex)
Harvested(g, plotIndex) ==
    IF ~g.plots[plotIndex].ready THEN g
    ELSE [g EXCEPT !.money = @ + seedInfo[g.plots[plotIndex].plant].sellPrice,
                   !.plots[plotIndex].plant = NoSeed,
                   !.plots[plotIndex].growth = N(0),
                   !.plots[plotIndex].ready = FALSE]

\* harvestPlot(plotIndex), by a click on a plot that renderGarden has shown
\* ready
harvestPlot ==
    \E plotIndex \in {i \in 1..Len(game.plots) :
                         /\ game.plots[i].unlocked /\ game.plots[i].plant # NoSeed
                         /\ game.plots[i].ready} :
        /\ game' = Harvested(game, plotIndex)
        /\ UNCHANGED <<runs, timers, plantVars, breederVars>>

\* harvestPlot(plotIndex), by a timer gameLoop has set
harvestPlotByTimer ==
    \E plotIndex \in timers :
        /\ game' = Harvested(game, plotIndex)
        /\ timers' = timers \ {plotIndex}
        /\ UNCHANGED <<runs, plantVars, breederVars>>

\* buyPlot()
buyPlot ==
    /\ game.unlockedPlots < MaxUnlocked
    /\ game' = IF game.money >= game.plotCost /\ game.unlockedPlots < game.maxPlots
               THEN [game EXCEPT !.money = @ - game.plotCost,
                                 !.plots[game.unlockedPlots + 1].unlocked = TRUE,
                                 !.unlockedPlots = @ + 1,
                                 !.plotCost = (@ * 3) \div 2]
               ELSE game
    /\ UNCHANGED <<runs, timers, plantVars, breederVars>>

\* buySpeed()
buySpeed ==
    /\ game.speedLevel < MaxSpeedLevel
    /\ game' = IF game.money >= game.speedCost
               THEN [game EXCEPT !.money = @ - game.speedCost,
                                 !.speedLevel = @ + 1,
                                 !.growthSpeed = Mul(@, game.speedMultiplier),
                                 !.speedCost = (@ * 9) \div 5]
               ELSE game
    /\ UNCHANGED <<runs, timers, plantVars, breederVars>>

\* buyAutoHarvest()
buyAutoHarvest ==
    /\ game' = IF game.money >= game.harvestCost /\ ~game.autoHarvest
               THEN [game EXCEPT !.money = @ - game.harvestCost,
                                 !.autoHarvest = TRUE]
               ELSE game
    /\ UNCHANGED <<runs, timers, plantVars, breederVars>>

\* a plot after the "Grow plants" loop of gameLoop has passed it
Grown(g, plot) ==
    IF plot.unlocked /\ plot.plant # NoSeed /\ ~plot.ready
    THEN LET growth == Add(plot.growth, g.growthSpeed)
         IN  [plot EXCEPT !.growth = growth,
                          !.ready = Ge(growth, N(seedInfo[plot.plant].growTime))]
    ELSE plot

\* the day after "Advance day every 10 seconds"
NextDay(day) == IF day % 10 = 0 THEN day + 1 ELSE day

\* one run of gameLoop, which setInterval starts every 1000 ms: the timers of
\* 500 ms set by the run before have fired
gameLoop ==
    LET plots == [i \in 1..Len(game.plots) |-> Grown(game, game.plots[i])]
        matured == {i \in 1..Len(game.plots) : plots[i].ready /\ ~game.plots[i].ready}
    IN  /\ runs < MaxRuns
        /\ timers = {}
        /\ game' = [game EXCEPT !.plots = plots, !.day = NextDay(@)]
        /\ timers' = IF game.autoHarvest THEN timers \cup matured ELSE timers
        /\ runs' = runs + 1
        /\ UNCHANGED <<plantVars, breederVars>>

\* the page after window.onload: initGame has run
InitGarden ==
    /\ input = Null
    /\ NoPlant
    /\ NoBreeder
    /\ game = initPlots(GameState)
    /\ runs = 0
    /\ timers = {}

NextGarden ==
    \/ buySeed \/ plantSeed \/ harvestPlot \/ harvestPlotByTimer
    \/ buyPlot \/ buySpeed \/ buyAutoHarvest \/ gameLoop

SpecGarden == InitGarden /\ [][NextGarden]_vars

-----------------------------------------------------------------------------
(* Properties of the phenotype resolver and of the codec, under SpecCodec *)

\* C1: for every qualitative trait and every allele pair of its blend table,
\* the plant built from the pair in either character order has the blend
\* entry as the phenotype of the trait
BlendIndependentOfOrder ==
    pc = "plant" =>
        \A key \in TraitKeySet :
            GENE_TRAITS[key].type = "qualitative" =>
                \A pair \in DOMAIN GENE_TRAITS[key].blendMap :
                    (\/ Get(genes, key) = Str(pair)
                     \/ Get(genes, key) = Str(<<pair[2], pair[1]>>))
                    => phenotype[key] = GENE_TRAITS[key].blendMap[pair]

\* the quantitative traits
QuantitativeKeys == {key \in TraitKeySet : GENE_TRAITS[key].type = "quantitative"}

\* C2: whatever value the parsed sequence carries for a quantitative trait,
\* the value of its phenotype lies within [min, max] of the trait
QuantitativeWithinRange ==
    pc = "plant" =>
        \A key \in QuantitativeKeys :
            /\ Le(GENE_TRAITS[key].min, phenotype[key].value)
            /\ Le(phenotype[key].value, GENE_TRAITS[key].max)

\* a plant whose size digits are beyond the range has the largest size
OutOfRangeDigitsClamped ==
    /\ pc = "plant"
    /\ input = Segment(SZ, <<"9", "9">>)
    /\ Get(genes, SZ) = Str(<<"9", "9">>)
    /\ phenotype[SZ].value = GENE_TRAITS[SZ].max

\* the values of a genotype conform to the registry: a qualitative trait has
\* two of its alleles, a quantitative trait the same digit of its range
\* twice, or the trait has its registry default
Conforms(g) ==
    /\ KeySetOf(g) = TraitKeySet
    /\ \A key \in TraitKeySet :
         LET v == Get(g, key)
             gene == GENE_TRAITS[key]
         IN  \/ v = gene.defaultValue
             \/ /\ IsString(v) /\ Len(v.str) = 2
                /\ IF gene.type = "qualitative"
                   THEN v.str[1] \in DOMAIN gene.alleles /\ v.str[2] \in DOMAIN gene.alleles
                   ELSE /\ v.str[1] = v.str[2]
                        /\ v.str[1] \in DigitChars
                        /\ Le(gene.min, N(DigitValue(v.str[1])))
                        /\ Le(N(DigitValue(v.str[1])), gene.max)

\* C8: parsing the serialization of a genotype whose values conform to the
\* registry maps every trait key to the value it had; parsing the default
\* sequence maps every trait key to its registry default
RoundTripYieldsGenotype ==
    /\ (reparsed # <<>> /\ Conforms(genes)) =>
          \A key \in TraitKeySet : Get(reparsed.genes, key) = Get(genes, key)
    /\ (pc = "plant" /\ input = Null) =>
          \A key \in TraitKeySet : Get(genes, key) = GENE_TRAITS[key].defaultValue

\* C9: the keys of the genotype parseGeneSequence returns are exactly the keys
\* of the registry: a segment with an unknown key leaves no entry
ParsedKeysAreRegistryKeys ==
    pc = "plant" => KeySetOf(genes) = TraitKeySet

\* every segment of the sequence is KEY:VALUE, key and value non-empty
KeyValueSegments(sequence) ==
    \A i \in 1..Len(Split(sequence, "-")) :
        LET parts == Split(Split(sequence, "-")[i], ":")
        IN  Len(parts) = 2 /\ parts[1] # <<>> /\ parts[2] # <<>>

\* no key occurs in more than one segment of the sequence
DistinctSegmentKeys(sequence) ==
    \A i, j \in 1..Len(Split(sequence, "-")) :
        Split(Split(sequence, "-")[i], ":")[1] = Split(Split(sequence, "-")[j], ":")[1]
        => i = j

\* C10 as stated: parsing the KEY:VALUE segments of a sequence in any order
\* gives the same mapping from keys to values
SegmentOrderIrrelevant ==
    (permuted # <<>> /\ KeyValueSegments(input)) =>
        AsMapping(permuted.genes) = AsMapping(genes)

\* C10: parsing the KEY:VALUE segments of a sequence in any order gives the
\* same mapping from keys to values, when no key occurs in more than one
\* segment
DistinctKeysOrderIrrelevant ==
    (permuted # <<>> /\ KeyValueSegments(input) /\ DistinctSegmentKeys(input)) =>
        AsMapping(permuted.genes) = AsMapping(genes)

\* two segments with different keys were parsed in the other order
SwappedSegmentsParsed ==
    /\ permuted # <<>>
    /\ input = Join(<<Segment(FC, <<"R", "B">>), Segment(SZ, <<"4", "4">>)>>, <<"-">>)
    /\ permuted.sequence = Join(<<Segment(SZ, <<"4", "4">>), Segment(FC, <<"R", "B">>)>>, <<"-">>)
    /\ Get(permuted.genes, FC) = Str(<<"R", "B">>)
    /\ Get(permuted.genes, SZ) = Str(<<"4", "4">>)

\* C11: toGeneSequence of a plant whose genotype has the registry's keys and
\* no other key is one KEY:VALUE segment per registry key, in the order of
\* the registry, whatever the order of the segments the plant was built from
SerializedInRegistryOrder ==
    (reparsed # <<>> /\ KeySetOf(genes) = TraitKeySet) =>
        reparsed.sequence =
            Join([i \in 1..Len(TraitKeys) |->
                    TraitKeys[i] \o <<":">> \o StringOf(Get(genes, TraitKeys[i]))],
                 <<"-">>)

\* the qualitative traits
QualitativeKeys == {key \in TraitKeySet : GENE_TRAITS[key].type = "qualitative"}

\* C12: for a qualitative trait whose value is two different alleles of the
\* trait with no blend table entry in either order, the phenotype is the
\* allele of strictly higher dominance, in whichever position it is, and the
\* allele of the first character when the dominances are equal
DominanceDecidesWithoutBlend ==
    pc = "plant" =>
        \A key \in QualitativeKeys :
            LET gene == GENE_TRAITS[key]
                v == Get(genes, key)
            IN  (/\ IsString(v) /\ Len(v.str) = 2
                 /\ v.str[1] # v.str[2]
                 /\ v.str[1] \in DOMAIN gene.alleles
                 /\ v.str[2] \in DOMAIN gene.alleles
                 /\ <<v.str[1], v.str[2]>> \notin DOMAIN gene.blendMap
                 /\ <<v.str[2], v.str[1]>> \notin DOMAIN gene.blendMap)
                => LET first == gene.alleles[v.str[1]]
                       second == gene.alleles[v.str[2]]
                   IN  /\ first.dominance > second.dominance => phenotype[key] = first
                       /\ second.dominance > first.dominance => phenotype[key] = second
                       /\ first.dominance = second.dominance => phenotype[key] = first

\* the dominant allele of a pair without blend is in the second position
DominantAlleleSecond ==
    /\ pc = "plant"
    /\ input = Segment(FC, <<"W", "P">>)
    /\ Get(genes, FC) = Str(<<"W", "P">>)
    /\ phenotype[FC] = FlowerAlleles["P"]

\* C15: for a qualitative trait whose value is the same allele of the trait
\* twice, the phenotype is the registry's definition of that allele, and no
\* entry of the blend table
HomozygousResolvesToAllele ==
    pc = "plant" =>
        \A key \in QualitativeKeys :
            LET gene == GENE_TRAITS[key]
                v == Get(genes, key)
            IN  (/\ IsString(v) /\ Len(v.str) = 2
                 /\ v.str[1] = v.str[2]
                 /\ v.str[1] \in DOMAIN gene.alleles)
                => /\ phenotype[key] = gene.alleles[v.str[1]]
                   /\ \A pair \in DOMAIN gene.blendMap :
                         phenotype[key] # gene.blendMap[pair]

\* a plant with the Blue allele twice has the Blue flower color
HomozygousBlue ==
    /\ pc = "plant"
    /\ input = Segment(FC, <<"B", "B">>)
    /\ Get(genes, FC) = Str(<<"B", "B">>)
    /\ phenotype[FC] = [name |-> "Blue", dominance |-> 2, value |-> "#5555FF"]

\* C18: for a qualitative trait whose value is two characters of which at
\* least one is no allele of the trait, the same such character twice
\* included, the phenotype is the first allele the registry defines for the
\* trait
UnrecognizedResolvesToFirstAllele ==
    pc = "plant" =>
        \A key \in QualitativeKeys :
            LET gene == GENE_TRAITS[key]
                v == Get(genes, key)
            IN  (/\ IsString(v) /\ Len(v.str) = 2
                 /\ \/ v.str[1] \notin DOMAIN gene.alleles
                    \/ v.str[2] \notin DOMAIN gene.alleles)
                => phenotype[key] = gene.alleles[gene.alleleKeys[1]]

-----------------------------------------------------------------------------
(* Properties of update() and harvest() *)

\* C3: an update() call on a ready plant, whatever its arguments, leaves
\* progress, health and ready as they were
ReadyUpdateIsNoOp ==
    [][(ready /\ Update) =>
          (progress' = progress /\ health' = health /\ ready' = ready)]_vars

\* update() was called on a ready plant
UpdatedWhenReady ==
    /\ ready
    /\ ret = [op |-> "update", event |-> "undefined"]

\* C4: health is always within [0, 100], and an update() call on a plant
\* that is not ready whose penalties bring health to 0 or below returns the
\* event "died" and leaves health at exactly 0
DeathAtZeroHealth ==
    /\ [](Le(N(0), health) /\ Le(health, N(100)))
    /\ [][\A c \in Calls, pestHit, weatherHit \in BOOLEAN :
            (/\ ~ready
             /\ ~(ret' = [op |-> "update", event |-> "died"] /\ health' = N(0))
             /\ Le(Penalised(phenotype, health, c.waterLevel, c.pestPresent, pestHit,
                             c.weatherEvent, weatherHit).health, N(0)))
            => ~update(c.waterLevel, c.pestPresent, pestHit, c.weatherEvent, weatherHit)]_vars

\* a plant has died
PlantDied ==
    /\ ret = [op |-> "update", event |-> "died"]
    /\ health = N(0)

\* C5: harvest() on a plant that is not ready returns the failure result,
\* without rewards, and leaves the plant as it was
HarvestNotReadyFails ==
    [][(~ready /\ Harvest) =>
          (/\ ret' = [op |-> "harvest", success |-> FALSE]
           /\ UNCHANGED <<genes, phenotype, progress, health, ready, watered>>)]_vars

\* harvest() was refused on a plant that had grown
HarvestRefused ==
    /\ ~ready
    /\ Gt(progress, N(0))
    /\ ret = [op |-> "harvest", success |-> FALSE]

\* C6: a successful harvest() pays round(10 * effectiveCoinMultiplier) coins
\* and 0 or 1 seeds, and leaves the plant ready at full progress
HarvestPaysYield ==
    (ret.op = "harvest" /\ ret.success) =>
        /\ ret.coins = MathRound(Mul(N(10), phenotype[YD].effectiveCoinMultiplier))
        /\ ret.seeds \in {0, 1}
        /\ ready
        /\ progress = N(100)

\* C16: once the health of a plant that is not ready has reached 0, no step
\* changes its progress or sets ready, so that no harvest() of a plant that
\* died while growing succeeds
DeadPlantStaysDead ==
    [][(pc = "plant" /\ health = N(0) /\ ~ready) =>
          (progress' = progress /\ ready' = ready)]_vars

\* progress is within [0, 100] and ready is set exactly at 100
ProgressInRange ==
    /\ Le(N(0), progress)
    /\ Le(progress, N(100))
    /\ ready <=> progress = N(100)

\* C19 as stated: whatever the waterLevel, pestPresent and weatherEvent of the
\* update() calls made on a new plant, progress is within [0, 100] and ready
\* is set exactly when progress is 100
ProgressAlwaysInRange == ProgressInRange

\* C19: a new plant has its progress within [0, 100] and ready set exactly
\* when progress is 100, and every update() call with a waterLevel of 0 or
\* more, whatever its pestPresent and weatherEvent, keeps it so: it holds
\* after every sequence of such calls
ProgressInRangeWithoutNegativeWater ==
    /\ [](pc = "new" => ProgressInRange)
    /\ [][\A c \in WaterCalls :
             \/ Lt(c.waterLevel, N(0))
             \/ ~ProgressInRange
             \/ ProgressInRange'
             \/ ~UpdateWith(c)]_vars

\* the plant has matured at full health: every call had water enough
MaturedAtFullHealth ==
    /\ pc = "plant"
    /\ ret = [op |-> "update", event |-> "matured"]
    /\ health = N(100)
    /\ progress = N(100)
    /\ ready

\* C23: no update() call with a waterLevel of 0 or more and no harvest()
\* call raises the health of a plant: after each call it is at most what it
\* was before, and an update() call with water enough, no pest and no
\* weather event leaves it as it was
HealthNeverIncreases ==
    [][pc = "plant" =>
          /\ Le(health', health)
          /\ health' = health \/ ~UpdateWith(DefaultCall)]_vars

\* a plant that has lost health while growing has been harvested
HarvestedAfterDamage ==
    /\ pc = "plant"
    /\ ret.op = "harvest"
    /\ ret.success
    /\ Lt(health, N(100))
    /\ Gt(health, N(0))

\* "FC:RY-SZ:22-LS:33-BP:11-GR:12-YD:44-RS:22-WN:22"
CarrotPreset ==
    <<"F", "C", ":", "R", "Y", "-", "S", "Z", ":", "2", "2", "-", "L", "S",
      ":", "3", "3", "-", "B", "P", ":", "1", "1", "-", "G", "R", ":", "1",
      "2", "-", "Y", "D", ":", "4", "4", "-", "R", "S", ":", "2", "2", "-",
      "W", "N", ":", "2", "2">>

\* C14: the carrot sequence of createStarterPlant is
\* "FC:RY-SZ:22-LS:33-BP:11-GR:12-YD:44-RS:22-WN:22", and the
\* plant built from it has the Orange blend as Flower Color, Size 2 and
\* Yield 4 with coinMultiplier 1.2
CarrotResolves ==
    /\ StarterSequence("carrot") = CarrotPreset
    /\ (pc = "plant" /\ input = CarrotPreset) =>
          /\ phenotype[FC] = [name |-> "Orange", value |-> "#FF9955"]
          /\ phenotype[FC] = FlowerBlendMap[<<"R", "Y">>]
          /\ phenotype[SZ].value = N(2)
          /\ phenotype[YD].value = N(4)
          /\ phenotype[YD].coinMultiplier = Q(12, 10)

\* the carrot plant has been constructed
CarrotConstructed ==
    /\ pc = "plant"
    /\ input = CarrotPreset
    /\ Get(genes, FC) = Str(<<"R", "Y">>)
    /\ Get(genes, YD) = Str(<<"4", "4">>)

\* the entries of a genotype whose value is a string of two equal characters
HomozygousEntries(g) ==
    {i \in 1..Len(g) : /\ IsString(g[i].v)
                        /\ Len(g[i].v.str) = 2
                        /\ g[i].v.str[1] = g[i].v.str[2]}

\* C20: with count the number of entries of the genotype whose value is a
\* string of two equal characters, the effectiveCoinMultiplier of the Yield
\* phenotype is its coinMultiplier when count <= 5, and
\* coinMultiplier * (1 - (count - 5) * 0.1) when count > 5
InbreedingLowersYield ==
    pc = "plant" =>
        LET count == Cardinality(HomozygousEntries(genes))
            yield == phenotype[YD]
        IN  /\ count <= 5 =>
                 yield.effectiveCoinMultiplier = yield.coinMultiplier
            /\ count > 5 =>
                 yield.effectiveCoinMultiplier =
                     Mul(yield.coinMultiplier,
                         Sub(N(1), Mul(N(count - 5), Q(1, 10))))

\* the tomato plant, homozygous at seven traits, yields 0.8 of its
\* coinMultiplier 1.0
TomatoInbred ==
    /\ pc = "plant"
    /\ input = StarterSequence("tomato")
    /\ Cardinality(HomozygousEntries(genes)) = 7
    /\ phenotype[YD].coinMultiplier = N(1)
    /\ phenotype[YD].effectiveCoinMultiplier = Q(8, 10)

\* C22: whatever sequence a plant is built from, segments with keys unknown
\* to the registry included, the effectiveCoinMultiplier of its Yield
\* phenotype is more than 0 and at most its coinMultiplier, the sellPrice of
\* getInfo() is at least 1 and a successful harvest() pays at least 1 coin
YieldMultiplierPositive ==
    pc = "plant" =>
        /\ Gt(phenotype[YD].effectiveCoinMultiplier, N(0))
        /\ Le(phenotype[YD].effectiveCoinMultiplier, phenotype[YD].coinMultiplier)
        /\ Ge(SellPrice(phenotype), N(1))
        /\ (ret.op = "harvest" /\ ret.success) => Ge(ret.coins, N(1))

-----------------------------------------------------------------------------
(* Properties of the breeder, under SpecBreeder *)

\* C7: the history is as long as the number of crossPlants calls that
\* returned an offspring; a call with a missing parent returns null and
\* leaves the history as it was; any other call returns an offspring and
\* appends one record to the history, which keeps the records it had
HistoryCountsCrossings ==
    /\ [](Len(crossingHistory) = returned)
    /\ [][\A a \in {parents[1], Null}, b \in {parents[2], Null} :
            \* the step is no crossPlants(a, b) call, unless it does this
            \/ IF a = Null \/ b = Null
               THEN offspring' = Absent /\ crossingHistory' = crossingHistory
               ELSE /\ offspring' # Absent
                    /\ Len(crossingHistory') = Len(crossingHistory) + 1
                    /\ SubSeq(crossingHistory', 1, Len(crossingHistory))
                          = crossingHistory
            \/ ~crossPlants(PlantOrAbsent(a), PlantOrAbsent(b))]_vars

\* a call with a missing parent returned null after two crossings
NullAfterCrossings ==
    /\ Len(crossingHistory) = 2
    /\ returned = 2
    /\ offspring = Absent

\* two numbers differ by at most 1
WithinOne(a, b) == Le(Sub(a, b), N(1)) /\ Le(Sub(b, a), N(1))

\* the homozygous values of a quantitative trait: a digit twice, within the
\* range of the trait or not
HomozygousValues(key) == {Str(<<d, d>>) : d \in DigitChars}

\* C13: a crossing of the two identical, everywhere homozygous parents that
\* mutates no gene gives every qualitative trait of the offspring the
\* parents' value, the shared allele twice; and, mutation or not, the
\* resolved value of every quantitative trait of the offspring is within 1
\* of the parents' resolved value, for the offspring of the plants crossed
\* and for every homozygous value a quantitative trait can have
HomozygousCrossStaysClose ==
    /\ [][(returned' = returned + 1 /\ mutations' = mutations) =>
             \A key \in QualitativeKeys :
                 Get(offspring'.genes, key) = Get(NewPlant(parents[1]).genes, key)]_vars
    /\ [](returned > 0 /\ offspring # Absent =>
             \A key \in QuantitativeKeys :
                 WithinOne(offspring.phenotype[key].value,
                           NewPlant(parents[1]).phenotype[key].value))
    /\ [](\A key \in QuantitativeKeys :
             \A parent \in HomozygousValues(key) :
                 \A crossed \in NewGenes(key, parent, parent) :
                     \A gene \in {crossed} \cup mutateMutation(crossed, key) :
                         WithinOne(NumericValue(GENE_TRAITS[key], gene),
                                   NumericValue(GENE_TRAITS[key], parent)))

\* a first crossing mutated the size to the next digit, a second crossing
\* mutated nothing and gave the parents' genotype
CrossedWithAndWithoutMutation ==
    /\ Len(crossingHistory) = 2
    /\ mutations = 1
    /\ offspring # Absent
    /\ Get(parseGeneSequence(crossingHistory[1].offspring), SZ) = Str(<<"2", "2">>)
    /\ crossingHistory[2].offspring = crossingHistory[2].parentA
    /\ offspring.genes = NewPlant(parents[1]).genes

\* C17: every trait of an offspring crossPlants returns for parents built
\* from conforming sequences has a string of two characters as its value:
\* two alleles of a qualitative trait, and for a quantitative trait the same
\* digit twice, a value within [min, max] of the trait
OffspringValuesAreDiploid ==
    (returned > 0 /\ offspring # Absent) =>
        \A key \in TraitKeySet :
            LET gene == GENE_TRAITS[key]
                v == Get(offspring.genes, key)
            IN  /\ IsString(v)
                /\ Len(v.str) = 2
                /\ IF gene.type = "qualitative"
                   THEN v.str[1] \in DOMAIN gene.alleles /\ v.str[2] \in DOMAIN gene.alleles
                   ELSE /\ v.str[1] = v.str[2]
                        /\ v.str[1] \in DigitChars
                        /\ Le(gene.min, N(DigitValue(v.str[1])))
                        /\ Le(N(DigitValue(v.str[1])), gene.max)

-----------------------------------------------------------------------------
(* Properties of the garden page, under SpecGarden *)

\* C21: the day advances every 10 runs of gameLoop: from day 1, after every
\* 10 runs game.day has increased, so that after 10 runs the day is more
\* than 1
DayAdvancesEveryTenRuns ==
    game.day >= 1 + (runs \div 10)

=============================================================================
